---------------------------- MODULE Spec2Model ----------------------------
(***************************************************************************)
(* A model of src/pkg/archive/zip/reader.go: the trailer locator           *)
(* (readDirectoryEnd, findSignatureInBlock), the central-directory parser  *)
(* (Reader.init, readDirectoryHeader), the local-header resolver           *)
(* (File.findBodyOffset) and the verified stream (File.Open,               *)
(* checksumReader.Read, readDataDescriptor).                               *)
(*                                                                         *)
(* The byte store is an io.ReaderAt.  Its content is kept run-length       *)
(* encoded (head, a unit repeated n times, tail) so that stores of many    *)
(* kilobytes, which the 1 KiB / 65 KiB windows, bufio's 4 KiB buffer and   *)
(* the 16-bit record count need, stay small as values.  All bytes of the   *)
(* stores used are below 128, so every decoded 32-bit field fits the       *)
(* integers of the model checker.                                          *)
(***************************************************************************)
EXTENDS Integers, Sequences, FiniteSets, TLC

VARIABLES
    store,      \* the io.ReaderAt handed to NewReader, and its size
    truth,      \* what the archiver wrote into the store (never read by the code)
    zr,         \* the result of NewReader: error, File list, Comment, directoryEnd
    lp,         \* Reader.init's record loop, when it is followed step by step
    streams     \* the checksumReader each Open call returned, by caller

vars == <<store, truth, zr, lp, streams>>

----------------------------------------------------------------------------
(* Sizes and signatures of struct.go, as the layout table of the spec gives *)
(* them.                                                                    *)

fileHeaderLen == 30
directoryHeaderLen == 46
directoryEndLen == 22
dataDescriptorLen == 12

fileHeaderSignature == <<80, 75, 3, 4>>
directoryHeaderSignature == <<80, 75, 1, 2>>
directoryEndSignature == <<80, 75, 5, 6>>

Store == 0
Deflate == 8

\* The two windows of readDirectoryEnd.
firstWindow == 1024
secondWindow == 66560

\* uint16(len(z.File)) keeps the count modulo 2^16.
uint16Mod == 65536

\* bufio's default buffer, which flate.NewReader puts around a reader
\* that has no ReadByte of its own (io.SectionReader has none).
bufioSize == 4096

\* The modulus of the stand-in for hash/crc32.
crcMod == 251

----------------------------------------------------------------------------
(* Helpers.                                                                 *)

Min(a, b) == IF a < b THEN a ELSE b

Max(a, b) == IF a < b THEN b ELSE a

Drop(s, k) == SubSeq(s, k + 1, Len(s))

Take(s, k) == SubSeq(s, 1, Min(k, Len(s)))

Rep(byte, n) == [i \in 1..n |-> byte]

\* toUint16 and toUint32 read at the start of b.
toUint16(b) == b[1] + b[2] * 256

toUint32(b) == b[1] + b[2] * 256 + b[3] * 65536 + b[4] * 16777216

\* The archiver's little-endian encoders.
le16(v) == <<v % 256, (v \div 256) % 256>>

le32(v) == <<v % 256, (v \div 256) % 256, (v \div 65536) % 256, (v \div 16777216) % 256>>

----------------------------------------------------------------------------
(* The byte store: io.ReaderAt over head ++ unit^n ++ tail.                 *)

MkStore(head, unit, n, tail) == [head |-> head, unit |-> unit, n |-> n, tail |-> tail]

Flat(bytes) == MkStore(bytes, <<>>, 0, <<>>)

Size(st) == Len(st.head) + st.n * Len(st.unit) + Len(st.tail)

\* The byte at 0-based position i.
ByteAt(st, i) ==
    IF i < Len(st.head) THEN st.head[i + 1]
    ELSE IF i < Len(st.head) + st.n * Len(st.unit)
         THEN st.unit[((i - Len(st.head)) % Len(st.unit)) + 1]
         ELSE st.tail[i - Len(st.head) - st.n * Len(st.unit) + 1]

\* ReaderAt.ReadAt(b, off) with len(b) = k: the bytes it could deliver, which
\* are ByteAt(st, off), ByteAt(st, off + 1), ...; taken piece by piece from the
\* head, the repeated unit and the tail.
ReadAt(st, off, k) ==
    LET hi   == Min(off + k, Size(st))
        hLen == Len(st.head)
        uEnd == hLen + st.n * Len(st.unit)
        runLo == Max(off, hLen)
        runHi == Min(hi, uEnd)
    IN  (IF off < hLen THEN SubSeq(st.head, off + 1, Min(hi, hLen)) ELSE <<>>)
        \o [j \in 1..Max(0, runHi - runLo) |->
              st.unit[((runLo - hLen + j - 1) % Len(st.unit)) + 1]]
        \o (IF hi > uEnd THEN SubSeq(st.tail, Max(off, uEnd) - uEnd + 1, hi - uEnd)
            ELSE <<>>)

\* io.ReadFull's error when `avail` bytes can be had and `want` are asked for:
\* EOF only when nothing was read, ErrUnexpectedEOF after a partial read.
ReadFullErr(avail, want) ==
    IF avail >= want THEN "nil"
    ELSE IF avail <= 0 THEN "EOF" ELSE "ErrUnexpectedEOF"

----------------------------------------------------------------------------
(* Trailer locator: findSignatureInBlock and readDirectoryEnd.              *)

\* A test that accepts a comment length reaching at most the end of the block.
sigAtLengthAtMost(b, i) ==
    /\ b[i + 1] = 80
    /\ b[i + 2] = 75
    /\ b[i + 3] = 5
    /\ b[i + 4] = 6
    /\ LET n == b[i + directoryEndLen - 1] + b[i + directoryEndLen] * 256
       IN  n + directoryEndLen + i <= Len(b)

\* The test of findSignatureInBlock's loop body at 0-based index i of block b:
\* the four signature bytes, and the comment length n read from the last two
\* bytes of the fixed part satisfying n + directoryEndLen + i = len(b).
sigAt(b, i) ==
    /\ b[i + 1] = 80
    /\ b[i + 2] = 75
    /\ b[i + 3] = 5
    /\ b[i + 4] = 6
    /\ LET n == b[i + directoryEndLen - 1] + b[i + directoryEndLen] * 256
       IN  n + directoryEndLen + i = Len(b)

\* The loop `for i := hi; i >= lo; i--` returning the first i that passes the
\* test, -1 when none does.  The range is visited in the loop's order, upper
\* part first, split in halves so that a 65 KiB block does not nest 65 thousand
\* evaluations.
RECURSIVE scanDown(_, _, _)
scanDown(b, hi, lo) ==
    IF hi < lo THEN -1
    ELSE IF hi = lo THEN (IF sigAt(b, hi) THEN hi ELSE -1)
    ELSE LET mid == (hi + lo + 1) \div 2
             up  == scanDown(b, hi, mid)
         IN  IF up >= 0 THEN up ELSE scanDown(b, mid - 1, lo)

findSignatureInBlock(b) == scanDown(b, Len(b) - directoryEndLen, 0)

\* The fields readDirectoryEnd decodes from b, which starts at the signature.
\* `at` is the store position of that signature; the code does not keep it.
parseDirectoryEnd(b, at) ==
    LET commentLen == toUint16(Drop(b, 20))
    IN  [ diskNbr            |-> toUint16(Drop(b, 4)),
          dirDiskNbr         |-> toUint16(Drop(b, 6)),
          dirRecordsThisDisk |-> toUint16(Drop(b, 8)),
          directoryRecords   |-> toUint16(Drop(b, 10)),
          directorySize      |-> toUint32(Drop(b, 12)),
          directoryOffset    |-> toUint32(Drop(b, 16)),
          commentLen         |-> commentLen,
          comment            |-> SubSeq(b, 23, 22 + commentLen),
          at                 |-> at ]

NoDirectoryEnd == [ diskNbr |-> 0, dirDiskNbr |-> 0, dirRecordsThisDisk |-> 0,
                    directoryRecords |-> 0, directorySize |-> 0,
                    directoryOffset |-> 0, commentLen |-> 0, comment |-> <<>>,
                    at |-> -1 ]

\* One round of readDirectoryEnd's loop over the window lengths: the block of
\* the last bLen bytes and the index found in it.
windowOf(st, window) ==
    LET bLen == Min(window, Size(st))
        b    == ReadAt(st, Size(st) - bLen, bLen)
    IN  [bLen |-> bLen, b |-> b, p |-> findSignatureInBlock(b)]

\* A locator that gives up after the first window.
readDirectoryEndFirstWindowOnly(st) ==
    LET w1 == windowOf(st, firstWindow)
    IN  IF w1.p >= 0
        THEN [err |-> "nil",
              dir |-> parseDirectoryEnd(Drop(w1.b, w1.p), Size(st) - w1.bLen + w1.p)]
        ELSE [err |-> "ErrFormat", dir |-> NoDirectoryEnd]

\* readDirectoryEnd: the last 1 KiB, then, unless that was the whole store, the
\* last 65 KiB; ErrFormat when neither block holds the signature.
readDirectoryEnd(st) ==
    LET w1 == windowOf(st, firstWindow)
    IN  IF w1.p >= 0
        THEN [err |-> "nil",
              dir |-> parseDirectoryEnd(Drop(w1.b, w1.p), Size(st) - w1.bLen + w1.p)]
        ELSE IF w1.bLen = Size(st)
        THEN [err |-> "ErrFormat", dir |-> NoDirectoryEnd]
        ELSE LET w2 == windowOf(st, secondWindow)
             IN  IF w2.p >= 0
                 THEN [err |-> "nil",
                       dir |-> parseDirectoryEnd(Drop(w2.b, w2.p),
                                                 Size(st) - w2.bLen + w2.p)]
                 ELSE [err |-> "ErrFormat", dir |-> NoDirectoryEnd]

----------------------------------------------------------------------------
(* Directory parser: readDirectoryHeader and Reader.init.                   *)

NoFile == [ CreatorVersion |-> 0, ReaderVersion |-> 0, Flags |-> 0, Method |-> 0,
            ModifiedTime |-> 0, ModifiedDate |-> 0, CRC32 |-> 0,
            CompressedSize |-> 0, UncompressedSize |-> 0, ExternalAttrs |-> 0,
            headerOffset |-> 0, Name |-> <<>>, Extra |-> <<>>, Comment |-> <<>> ]

\* readDirectoryHeader on the reader positioned at pos: its error, the File it
\* filled in, and the position after the record.
readDirectoryHeader(st, pos) ==
    LET b  == ReadAt(st, pos, directoryHeaderLen)
        e1 == ReadFullErr(Size(st) - pos, directoryHeaderLen)
    IN  IF e1 # "nil" THEN [err |-> e1, f |-> NoFile, next |-> pos]
        ELSE IF Take(b, 4) # directoryHeaderSignature
        THEN [err |-> "ErrFormat", f |-> NoFile, next |-> pos]
        ELSE LET filenameLen == toUint16(Drop(b, 28))
                 extraLen    == toUint16(Drop(b, 30))
                 commentLen  == toUint16(Drop(b, 32))
                 dLen        == filenameLen + extraLen + commentLen
                 d           == ReadAt(st, pos + directoryHeaderLen, dLen)
                 e2          == ReadFullErr(Size(st) - pos - directoryHeaderLen, dLen)
             IN  IF e2 # "nil" THEN [err |-> e2, f |-> NoFile, next |-> pos]
                 ELSE [ err  |-> "nil",
                        next |-> pos + directoryHeaderLen + dLen,
                        f    |-> [ CreatorVersion   |-> toUint16(Drop(b, 4)),
                                   ReaderVersion    |-> toUint16(Drop(b, 6)),
                                   Flags            |-> toUint16(Drop(b, 8)),
                                   Method           |-> toUint16(Drop(b, 10)),
                                   ModifiedTime     |-> toUint16(Drop(b, 12)),
                                   ModifiedDate     |-> toUint16(Drop(b, 14)),
                                   CRC32            |-> toUint32(Drop(b, 16)),
                                   CompressedSize   |-> toUint32(Drop(b, 20)),
                                   UncompressedSize |-> toUint32(Drop(b, 24)),
                                   ExternalAttrs    |-> toUint32(Drop(b, 38)),
                                   headerOffset     |-> toUint32(Drop(b, 42)),
                                   Name    |-> SubSeq(d, 1, filenameLen),
                                   Extra   |-> SubSeq(d, filenameLen + 1,
                                                      filenameLen + extraLen),
                                   Comment |-> SubSeq(d, filenameLen + extraLen + 1,
                                                      dLen) ] ]

\* A loop that breaks on ErrFormat only.
softStopFormatOnly(err) == err = "ErrFormat"

\* The two errors on which init's loop breaks instead of returning.
softStop(err) == err = "ErrFormat" \/ err = "ErrUnexpectedEOF"

\* uint16(len(z.File)) != end.directoryRecords
countMismatch(n, declared) == n % uint16Mod # declared

\* What init returns once the loop has broken with error err after n Files
\* were appended.
initFinish(n, declared, err) == IF countMismatch(n, declared) THEN err ELSE "nil"

\* init's loop from position pos with `files` decoded so far, to its end.
RECURSIVE dirLoop(_, _, _, _)
dirLoop(st, pos, files, declared) ==
    LET h == readDirectoryHeader(st, pos)
    IN  IF softStop(h.err)
        THEN LET ret == initFinish(Len(files), declared, h.err)
             IN  [err |-> ret, File |-> IF ret = "nil" THEN files ELSE <<>>]
        ELSE IF h.err # "nil" THEN [err |-> h.err, File |-> <<>>]
        ELSE dirLoop(st, h.next, Append(files, h.f), declared)

\* rs.Seek(offset, SEEK_SET) on io.NewSectionReader(r, 0, size).
seekErr(st, offset) == IF offset > Size(st) THEN "EINVAL" ELSE "nil"

\* NewReader(r, size): the error, and the Reader's File and Comment (none on error).
NewReader(st) ==
    LET e == readDirectoryEnd(st)
    IN  IF e.err # "nil"
        THEN [err |-> e.err, File |-> <<>>, Comment |-> <<>>, end |-> NoDirectoryEnd]
        ELSE IF seekErr(st, e.dir.directoryOffset) # "nil"
        THEN [err |-> seekErr(st, e.dir.directoryOffset), File |-> <<>>,
              Comment |-> <<>>, end |-> e.dir]
        ELSE LET r == dirLoop(st, e.dir.directoryOffset, <<>>, e.dir.directoryRecords)
             IN  [err |-> r.err, File |-> r.File,
                  Comment |-> IF r.err = "nil" THEN e.dir.comment ELSE <<>>,
                  end |-> e.dir]

----------------------------------------------------------------------------
(* Stand-ins for hash/crc32 and compress/flate, which the reader only uses *)
(* through their interfaces.                                                *)

\* hash.Write(p) on an accumulator holding h; Sum32 is the accumulator.
RECURSIVE crcWrite(_, _)
crcWrite(h, p) ==
    IF p = <<>> THEN h
    ELSE crcWrite((h * 31 + Head(p) + 1) % crcMod, Tail(p))

crc32(p) == crcWrite(0, p)

\* A deflate stream of one final stored block: the block header, the length,
\* its complement, then one coded byte per plain byte.  It ends by itself.
flateHeaderLen == 3

flateCode(byte) == 127 - byte

deflate(p) == <<1, Len(p), 127 - Len(p)>> \o [i \in 1..Len(p) |-> flateCode(p[i])]

----------------------------------------------------------------------------
(* The archiver: the bytes of a well-formed archive, record by record, and  *)
(* the damage a test does to one.  An entry e has the plain bytes, the      *)
(* method and flags, whether the central directory declares zero CRC and    *)
(* sizes (cdZero), whether a byte of the body was changed after writing     *)
(* (flip), and where the central directory says its local header is (hdr).  *)

entryName == <<97>>

flipLast(b) == [b EXCEPT ![Len(b)] = (b[Len(b)] + 1) % 128]

cleanBody(e) == IF e.method = Deflate THEN deflate(e.content) ELSE e.content

entryBody(e) == IF e.flip THEN flipLast(cleanBody(e)) ELSE cleanBody(e)

trailerFollows(e) == (e.flags \div 8) % 2 = 1

localRecord(e) ==
    LET z == trailerFollows(e)
    IN  fileHeaderSignature \o le16(20) \o le16(e.flags) \o le16(e.method)
        \o le16(0) \o le16(0)
        \o le32(IF z THEN 0 ELSE crc32(e.content))
        \o le32(IF z THEN 0 ELSE Len(cleanBody(e)))
        \o le32(IF z THEN 0 ELSE Len(e.content))
        \o le16(Len(entryName)) \o le16(0) \o entryName

dataDescriptor(e) ==
    le32(crc32(e.content)) \o le32(Len(cleanBody(e))) \o le32(Len(e.content))

localPart(e) ==
    localRecord(e) \o entryBody(e)
    \o (IF trailerFollows(e) THEN dataDescriptor(e) ELSE <<>>)

centralRecord(e, headerOffset) ==
    directoryHeaderSignature \o le16(20) \o le16(20) \o le16(e.flags)
    \o le16(e.method) \o le16(0) \o le16(0)
    \o le32(IF e.cdZero THEN 0 ELSE crc32(e.content))
    \o le32(IF e.cdZero THEN 0 ELSE Len(cleanBody(e)))
    \o le32(IF e.cdZero THEN 0 ELSE Len(e.content))
    \o le16(Len(entryName)) \o le16(0) \o le16(0) \o le16(0) \o le16(0)
    \o le32(0) \o le32(headerOffset) \o entryName

centralLen == directoryHeaderLen + Len(entryName)

trailerFixed(records, dirSize, dirOffset, commentLen) ==
    directoryEndSignature \o le16(0) \o le16(0) \o le16(records) \o le16(records)
    \o le32(dirSize) \o le32(dirOffset) \o le16(commentLen)

\* A comment: `head`, then `fill` bytes of value 1, then `tail`.
MkComment(head, fill, tail) == [head |-> head, fill |-> fill, tail |-> tail]

commentLength(c) == Len(c.head) + c.fill + Len(c.tail)

commentBytes(c) == c.head \o Rep(1, c.fill) \o c.tail

\* The trailer a test damaged: its signature spoilt ("nosig") or its comment
\* length one more than the comment that follows ("badlen").
damagedTrailer(fixed, damage) ==
    CASE damage = "none"   -> fixed
      [] damage = "nosig"  -> [fixed EXCEPT ![4] = 7]
      [] damage = "badlen" -> [fixed EXCEPT ![21] = (fixed[21] + 1) % 128]

\* The store made of the local parts, the central directory, and the trailer
\* declaring `declared` records at dirOffset, with comment c.
assemble(locals, centrals, declared, dirOffset, c, damage) ==
    MkStore(locals \o centrals
            \o damagedTrailer(trailerFixed(declared, Len(centrals), dirOffset,
                                           commentLength(c)), damage)
            \o c.head,
            <<1>>, c.fill, c.tail)

RECURSIVE localParts(_)
localParts(es) ==
    IF es = <<>> THEN <<>> ELSE localPart(Head(es)) \o localParts(Tail(es))

\* The header offset the central directory records for an entry whose local
\* header truly is at `at`, in a store of `size` bytes.
recordedOffset(e, at, size) ==
    CASE e.hdr = "ok"     -> at
      [] e.hdr = "badsig" -> at + 1
      [] e.hdr = "short"  -> size - 10
      [] e.hdr = "eof"    -> size

RECURSIVE centralParts(_, _, _)
centralParts(es, at, size) ==
    IF es = <<>> THEN <<>>
    ELSE centralRecord(Head(es), recordedOffset(Head(es), at, size))
         \o centralParts(Tail(es), at + Len(localPart(Head(es))), size)

\* The well-formed archive of entries es with comment c.
archiveSize(es, c) ==
    Len(localParts(es)) + Len(es) * centralLen + directoryEndLen + commentLength(c)

archive(es, c) ==
    assemble(localParts(es), centralParts(es, 0, archiveSize(es, c)), Len(es),
             Len(localParts(es)), c, "none")

\* What a correct reader makes of entry e with its local header at `at`.
expectedFile(e, at, size) ==
    [ CreatorVersion |-> 20, ReaderVersion |-> 20, Flags |-> e.flags,
      Method |-> e.method, ModifiedTime |-> 0, ModifiedDate |-> 0,
      CRC32 |-> IF e.cdZero THEN 0 ELSE crc32(e.content),
      CompressedSize |-> IF e.cdZero THEN 0 ELSE Len(cleanBody(e)),
      UncompressedSize |-> IF e.cdZero THEN 0 ELSE Len(e.content),
      ExternalAttrs |-> 0, headerOffset |-> recordedOffset(e, at, size),
      Name |-> entryName, Extra |-> <<>>, Comment |-> <<>> ]

RECURSIVE expectedFiles(_, _, _)
expectedFiles(es, at, size) ==
    IF es = <<>> THEN <<>>
    ELSE <<expectedFile(Head(es), at, size)>>
         \o expectedFiles(Tail(es), at + Len(localPart(Head(es))), size)

----------------------------------------------------------------------------
(* Local-header resolver and the stream File.Open returns.                  *)

hasDataDescriptor(f) == (f.Flags \div 8) % 2 = 1

\* findBodyOffset: io.ReadFull of the fixed header from the section that starts
\* at headerOffset, the signature test, and the fixed length plus the name and
\* extra lengths of the local header.
findBodyOffset(st, f) ==
    LET b == ReadAt(st, f.headerOffset, fileHeaderLen)
        e == ReadFullErr(Size(st) - f.headerOffset, fileHeaderLen)
    IN  IF e # "nil" THEN [err |-> e, off |-> 0]
        ELSE IF Take(b, 4) # fileHeaderSignature THEN [err |-> "ErrFormat", off |-> 0]
        ELSE [err |-> "nil",
              off |-> fileHeaderLen + toUint16(Drop(b, 26)) + toUint16(Drop(b, 28))]

\* The length Open gives the section reader over the body.
bodySize(st, f, bodyOffset) ==
    IF f.CompressedSize = 0 /\ hasDataDescriptor(f)
    THEN Size(st) - (f.headerOffset + bodyOffset)
    ELSE f.CompressedSize

\* A switch whose default case treats the body as stored.
methodSwitchDefaultStore(method) == [rc |-> TRUE, err |-> "nil"]

\* The switch on f.Method: whether rc is set, and the error.
methodSwitch(method) ==
    IF method = Store \/ method = Deflate
    THEN [rc |-> TRUE, err |-> "nil"]
    ELSE [rc |-> FALSE, err |-> "ErrAlgorithm"]

\* A caller's stream slot before Open.  dd records how the read of the data
\* descriptor went ("none" while it was not tried, "short", "read").
NoStream == [ st |-> "none", fi |-> 0, method |-> 0, base |-> 0, limit |-> 0,
              off |-> 0, hash |-> 0, out |-> <<>>, err |-> "nil", dd |-> "none" ]

\* File.Open on File number fi: the error, and the checksumReader (rc, a fresh
\* hash, the File, and the section reader r that rc reads from and that the
\* data descriptor is later read from).  st is "failed" when rc is nil.
openFile(st, f, fi) ==
    LET bo == findBodyOffset(st, f)
        sw == methodSwitch(f.Method)
    IN  IF bo.err # "nil" THEN [NoStream EXCEPT !.st = "failed", !.fi = fi, !.err = bo.err]
        ELSE IF ~sw.rc THEN [NoStream EXCEPT !.st = "failed", !.fi = fi, !.err = sw.err]
        ELSE [NoStream EXCEPT !.st = "open", !.fi = fi, !.method = f.Method,
                              !.base = f.headerOffset + bo.off,
                              !.limit = bodySize(st, f, bo.off)]

\* How far the section reader of stream s can be read: its own limit, or the
\* end of the store when that comes first.
sectionCap(st, s) == Max(0, Min(s.limit, Size(st) - s.base))

\* io.SectionReader.Read(p) with len(p) = n, as ioutil.NopCloser passes it on.
storeRead(st, s, n) ==
    IF s.off >= s.limit THEN [data |-> <<>>, err |-> "EOF", off |-> s.off]
    ELSE LET want == Min(n, s.limit - s.off)
             got  == Max(0, Min(want, Size(st) - (s.base + s.off)))
         IN  [data |-> ReadAt(st, s.base + s.off, got),
              err  |-> IF got < want THEN "EOF" ELSE "nil",
              off  |-> s.off + got]

\* bufio.Reader.fill, repeated until `need` bytes of the section were read or
\* the section is exhausted: each fill asks for a whole buffer.
RECURSIVE fillTo(_, _, _)
fillTo(off, need, cap) ==
    IF off >= need \/ off >= cap THEN off
    ELSE fillTo(Min(off + bufioSize, cap), need, cap)

\* The inflater's Read(p) with len(p) = n over bufio over the section reader:
\* the block header first, then up to n decoded bytes, then EOF.
flateRead(st, s, n) ==
    LET cap  == sectionCap(st, s)
        off1 == fillTo(s.off, flateHeaderLen, cap)
        hdr  == ReadAt(st, s.base, flateHeaderLen)
        done == Len(s.out)
    IN  IF off1 < flateHeaderLen
        THEN [data |-> <<>>, err |-> "ErrUnexpectedEOF", off |-> off1]
        ELSE IF hdr[1] # 1 \/ hdr[3] # 127 - hdr[2]
        THEN [data |-> <<>>, err |-> "CorruptInputError", off |-> off1]
        ELSE IF done >= hdr[2]
        THEN [data |-> <<>>, err |-> "EOF", off |-> off1]
        ELSE LET k    == Min(n, hdr[2] - done)
                 off2 == fillTo(off1, flateHeaderLen + done + k, cap)
                 got  == Max(0, Min(k, off2 - (flateHeaderLen + done)))
                 raw  == ReadAt(st, s.base + flateHeaderLen + done, got)
             IN  [data |-> [i \in 1..got |-> flateCode(raw[i])],
                  err  |-> IF got = 0 THEN "ErrUnexpectedEOF" ELSE "nil",
                  off  |-> off2]

innerRead(st, s, n) ==
    IF s.method = Deflate THEN flateRead(st, s, n) ELSE storeRead(st, s, n)

\* readDataDescriptor(r.zipr, r.f): io.ReadFull of dataDescriptorLen bytes from
\* the section reader at offset off, then the three fields stored into the File.
readDataDescriptor(st, s, off, f) ==
    LET e == ReadFullErr(sectionCap(st, s) - off, dataDescriptorLen)
        b == ReadAt(st, s.base + off, dataDescriptorLen)
    IN  IF e # "nil" THEN [err |-> e, f |-> f]
        ELSE [err |-> "nil",
              f   |-> [f EXCEPT !.CRC32 = toUint32(b),
                                !.CompressedSize = toUint32(Drop(b, 4)),
                                !.UncompressedSize = toUint32(Drop(b, 8))]]

\* The comparison that ends checksumReader.Read.
checksumErr(sum, f) == IF sum # f.CRC32 THEN "ErrChecksum" ELSE "EOF"

\* checksumReader.Read(b) with len(b) = n on stream s whose File is f: the
\* stream afterwards (err is what Read returned) and the File afterwards.
checksumRead(st, s, f, n) ==
    LET in   == innerRead(st, s, n)
        sum  == crcWrite(s.hash, in.data)
        s1   == [s EXCEPT !.off = in.off, !.hash = sum, !.out = s.out \o in.data]
    IN  IF in.err # "EOF"
        THEN [s |-> [s1 EXCEPT !.err = in.err,
                               !.st = IF in.err = "nil" THEN "open" ELSE "done"],
              f |-> f]
        ELSE IF hasDataDescriptor(f)
        THEN LET dd == readDataDescriptor(st, s, in.off, f)
             IN  IF dd.err # "nil"
                 THEN [s |-> [s1 EXCEPT !.err = dd.err, !.st = "done", !.dd = "short"],
                       f |-> f]
                 ELSE [s |-> [s1 EXCEPT !.err = checksumErr(sum, dd.f), !.st = "done",
                                        !.off = in.off + dataDescriptorLen,
                                        !.dd = "read"],
                       f |-> dd.f]
        ELSE [s |-> [s1 EXCEPT !.err = checksumErr(sum, f), !.st = "done"], f |-> f]

----------------------------------------------------------------------------
(* The specification of reading entries: one archive of one entry, opened   *)
(* by NewReader, then Open and Read by two callers in any order.            *)

\* The longest buffer a caller hands to Read.
MaxBuf == 2

Callers == {"a", "b"}

Contents == {<<>>, <<5>>, <<5, 9>>}

Entries ==
    { e \in [ content : Contents, method : {Store, Deflate, 99}, flags : {0, 8},
              cdZero : BOOLEAN, flip : BOOLEAN,
              hdr : {"ok", "badsig", "short", "eof"} ] :
        /\ e.cdZero => trailerFollows(e)
        /\ e.flip => e.content # <<>> }

\* The comment lengths tried with entry e: none, and for a deflated entry with
\* a trailer two lengths that leave 5 and 40 bytes of the store beyond the
\* first buffer bufio fills from the body's start.
bodyStart == fileHeaderLen + Len(entryName)

fillsOf(e) ==
    {0} \cup
    IF e.method = Deflate /\ trailerFollows(e) /\ e.hdr = "ok"
    THEN { bufioSize + k + bodyStart
             - (Len(localPart(e)) + centralLen + directoryEndLen) : k \in {5, 40} }
    ELSE {}

\* Stores that hold no trailer at all.
BrokenStores ==
    { Flat(Take(trailerFixed(0, 0, 0, 0), k)) : k \in {0, 10, 21} }
    \cup { Flat(Rep(80, 30)) }

NoTruth == [es |-> <<>>, comment |-> MkComment(<<>>, 0, <<>>), wellFormed |-> FALSE]

NotOpened == [opened |-> FALSE, err |-> "nil", File |-> <<>>, Comment |-> <<>>,
              end |-> NoDirectoryEnd]

NoLoop == [pc |-> "idle", pos |-> 0, err |-> "nil", files |-> <<>>, ret |-> "nil"]

Init ==
    /\ \/ \E e \in Entries : \E fill \in fillsOf(e) :
            /\ store = archive(<<e>>, MkComment(<<>>, fill, <<>>))
            /\ truth = [es |-> <<e>>, comment |-> MkComment(<<>>, fill, <<>>),
                        wellFormed |-> TRUE]
       \/ /\ store \in BrokenStores
          /\ truth = NoTruth
    /\ zr = NotOpened
    /\ lp = NoLoop
    /\ streams = [c \in Callers |-> NoStream]

\* NewReader(r, size).
DoNewReader ==
    /\ ~zr.opened
    /\ zr' = [opened |-> TRUE] @@ NewReader(store)
    /\ UNCHANGED <<store, truth, lp, streams>>

\* f.Open() by caller c on z.File[i].
DoOpen(c, i) ==
    /\ zr.opened /\ zr.err = "nil"
    /\ streams[c].st = "none"
    /\ streams' = [streams EXCEPT ![c] = openFile(store, zr.File[i], i)]
    /\ UNCHANGED <<store, truth, zr, lp>>

\* rc.Read(b) with len(b) = n by caller c on the stream Open gave it.
DoRead(c, n) ==
    /\ streams[c].st = "open"
    /\ LET r == checksumRead(store, streams[c], zr.File[streams[c].fi], n)
       IN  /\ streams' = [streams EXCEPT ![c] = r.s]
           /\ zr' = [zr EXCEPT !.File[streams[c].fi] = r.f]
    /\ UNCHANGED <<store, truth, lp>>

Next ==
    \/ DoNewReader
    \/ \E c \in Callers : \E i \in 1..Len(zr.File) : DoOpen(c, i)
    \/ \E c \in Callers : \E n \in 1..MaxBuf : DoRead(c, n)

Spec == Init /\ [][Next]_vars

----------------------------------------------------------------------------
(* Properties of Open and Read, checked under Spec.                         *)

\* The entry the archiver wrote that caller c's stream was opened on.
entryOf(c) == truth.es[streams[c].fi]

\* The File list as parsed from the central directory of the store.
parsedFiles == NewReader(store).File

\* The CRC-32 a drained stream of caller c is to be verified against: the data
\* descriptor the archiver wrote when the entry's trailer-follows flag is set,
\* the central directory's value otherwise.
authoritativeCRC(c) ==
    IF trailerFollows(entryOf(c))
    THEN toUint32(dataDescriptor(entryOf(c)))
    ELSE parsedFiles[streams[c].fi].CRC32

drained(c) == streams[c].st = "done"

\* C1: a stream never reports a clean end-of-stream when the CRC-32 of the
\* bytes it delivered differs from the authoritative CRC-32.
C1_NoCleanEndOnMismatch ==
    \A c \in Callers :
        (truth.wellFormed /\ drained(c) /\ streams[c].err = "EOF")
            => crc32(streams[c].out) = authoritativeCRC(c)

\* C2: no Open and no Read changes an entry: the CRC-32 and the sizes of every
\* File stay the values parsed from the central directory.
C2_EntryNeverMutated ==
    (zr.opened /\ zr.err = "nil") =>
        \A i \in 1..Len(zr.File) :
            /\ zr.File[i].CRC32 = parsedFiles[i].CRC32
            /\ zr.File[i].CompressedSize = parsedFiles[i].CompressedSize
            /\ zr.File[i].UncompressedSize = parsedFiles[i].UncompressedSize

\* C3: two streams open on the same entry share no mutable state: a Read by
\* one caller changes nothing that the other caller's stream holds, neither
\* that stream nor the File its checksumReader points to.
C3_StreamsShareNothing ==
    [][ \A c \in Callers : \A d \in Callers \ {c} :
          ( /\ streams[c].st = "open" /\ streams[d].st = "open"
            /\ streams[c].fi = streams[d].fi
            /\ streams'[c] # streams[c] )
          => /\ streams'[d] = streams[d]
             /\ zr'.File[streams[d].fi] = zr.File[streams[d].fi] ]_vars

\* An entry as C4 describes it: trailer-follows flag set, zero CRC and sizes in
\* the central directory, method store or deflate, nothing damaged.
deferredEntry(e) ==
    /\ trailerFollows(e) /\ e.cdZero
    /\ e.method \in {Store, Deflate}
    /\ ~e.flip /\ e.hdr = "ok"

\* C4: draining the stream of such an entry delivers exactly the entry's bytes,
\* reads the data descriptor right after the compressed body, and ends cleanly.
C4_DeferredTrailerRoundTrip ==
    \A c \in Callers :
        (truth.wellFormed /\ drained(c) /\ deferredEntry(entryOf(c)))
            => /\ streams[c].out = entryOf(c).content
               /\ streams[c].err = "EOF"
               /\ streams[c].off = Len(cleanBody(entryOf(c))) + dataDescriptorLen

\* An entry of a well-formed archive: nothing damaged, and the central
\* directory holds the true CRC and sizes.
wellFormedEntry(e) ==
    /\ ~e.flip /\ e.hdr = "ok"
    /\ e.cdZero => (e.content = <<>> /\ e.method = Store)

\* C5: a stored entry of a well-formed archive is delivered exactly, whatever
\* the buffer sizes, and its stream ends cleanly.
C5_StoreRoundTrip ==
    \A c \in Callers :
        (truth.wellFormed /\ drained(c) /\ wellFormedEntry(entryOf(c))
           /\ entryOf(c).method = Store)
            => /\ streams[c].out = entryOf(c).content
               /\ streams[c].err = "EOF"

\* Open was called by caller c and has returned.
opened(c) == streams[c].st # "none"

supported(method) == method = Store \/ method = Deflate

\* C8 as stated: Open on an entry whose method is neither store nor deflate
\* fails with AlgorithmError and returns no stream.
C8_UnsupportedMethodAlgorithmError ==
    \A c \in Callers :
        (truth.wellFormed /\ opened(c) /\ ~supported(entryOf(c).method))
            => streams[c].st = "failed" /\ streams[c].err = "ErrAlgorithm"

\* The error the local-header resolver ends with for entry e.
resolverErr(e) ==
    CASE e.hdr = "ok"     -> "nil"
      [] e.hdr = "badsig" -> "ErrFormat"
      [] e.hdr = "short"  -> "ErrUnexpectedEOF"
      [] e.hdr = "eof"    -> "EOF"

\* C8 amended: Open on such an entry returns no stream; it fails with
\* AlgorithmError when the local header resolves, and with the resolver's
\* error when it does not.
C8_UnsupportedMethodNoStream ==
    \A c \in Callers :
        (truth.wellFormed /\ opened(c) /\ ~supported(entryOf(c).method))
            => /\ streams[c].st = "failed"
               /\ streams[c].err = IF resolverErr(entryOf(c)) = "nil"
                                   THEN "ErrAlgorithm"
                                   ELSE resolverErr(entryOf(c))

C8_Witness ==
    \E c \in Callers :
        /\ truth.wellFormed /\ opened(c)
        /\ entryOf(c).method = 99 /\ entryOf(c).hdr = "ok"
        /\ streams[c].st = "failed" /\ streams[c].err = "ErrAlgorithm"

\* The bytes the store holds from the header offset of caller c's File on.
headerAvail(c) == Size(store) - zr.File[streams[c].fi].headerOffset

\* The bytes left in the section reader of caller c's stream.
sectionLeft(c) == sectionCap(store, streams[c]) - streams[c].off

\* C9: where the store yields fewer bytes than a fixed-size structure needs
\* (the local header in Open, the data descriptor at end-of-stream, the
\* trailer in NewReader), the operation fails with FormatError, never with a
\* different error and never with a clean result.
C9_TruncationIsFormatError ==
    /\ \A c \in Callers :
         (opened(c) /\ headerAvail(c) < fileHeaderLen)
            => streams[c].st = "failed" /\ streams[c].err = "ErrFormat"
    /\ \A c \in Callers :
         (drained(c) /\ streams[c].dd = "short") => streams[c].err = "ErrFormat"
    /\ (zr.opened /\ Size(store) < directoryEndLen) => zr.err = "ErrFormat"

\* C9, its last clause alone: none of the three ends with a clean result.  Open
\* returns no stream, NewReader returns an error, and the Read that finds the
\* data descriptor short does not end the stream with io.EOF.
C9_TruncationNeverClean ==
    /\ \A c \in Callers :
         (opened(c) /\ headerAvail(c) < fileHeaderLen) => streams[c].st = "failed"
    /\ \A c \in Callers :
         (drained(c) /\ streams[c].dd = "short") => streams[c].err # "EOF"
    /\ (zr.opened /\ Size(store) < directoryEndLen) => zr.err # "nil"

\* What the code does in these cases: a short trailer fails NewReader with
\* ErrFormat; a short local header fails Open, and a short data descriptor ends
\* Read, with io.ReadFull's own error, ErrUnexpectedEOF after a partial read
\* and io.EOF when no byte at all was left.
TruncationErrorsOfReadFull ==
    /\ \A c \in Callers :
         (opened(c) /\ headerAvail(c) < fileHeaderLen)
            => /\ streams[c].st = "failed"
               /\ streams[c].err = IF headerAvail(c) <= 0 THEN "EOF"
                                   ELSE "ErrUnexpectedEOF"
    /\ \A c \in Callers :
         (drained(c) /\ streams[c].dd = "short")
            => streams[c].err = IF sectionLeft(c) <= 0 THEN "EOF"
                                ELSE "ErrUnexpectedEOF"
    /\ (zr.opened /\ Size(store) < directoryEndLen) => zr.err = "ErrFormat"

----------------------------------------------------------------------------
(* The specification of the trailer locator: archives of up to two entries, *)
(* whose comment an archiver replaces, and which NewReader opens; and       *)
(* damaged copies of them.                                                  *)

plainEntry(content, method) ==
    [content |-> content, method |-> method, flags |-> 0, cdZero |-> FALSE,
     flip |-> FALSE, hdr |-> "ok"]

EntryLists ==
    { <<>>,
      <<plainEntry(<<5>>, Store)>>,
      <<plainEntry(<<5>>, Store), plainEntry(<<5, 9>>, Deflate)>> }

\* A complete trailer record of its own, declaring a comment of k bytes and an
\* empty directory at offset 0: what a comment may happen to contain.
fakeTrailer(k) == trailerFixed(0, 0, 0, k)

\* The comments tried.  The fill lengths put the trailer at the first byte of
\* the 1 KiB window, one byte before it, and make the longest comment the
\* 16-bit length field admits; the heads and tails put signature bytes, and
\* whole trailers whose length field is or is not consistent, into the comment.
Comments ==
    { MkComment(<<>>, n, <<>>) :
        n \in {0, 1, 2, firstWindow - directoryEndLen,
               firstWindow - directoryEndLen + 1} }
    \cup { MkComment(directoryEndSignature, n, <<>>) : n \in {0, 30} }
    \cup { MkComment(fakeTrailer(k), n, <<>>) :
             k \in {0, 3}, n \in {0, 3, firstWindow} }
    \cup { MkComment(<<>>, n, fakeTrailer(k)) :
             k \in {0, 3}, n \in {0, firstWindow} }

\* The comments tried with the entries es: the longest one only with two
\* entries.
CommentsOf(es) ==
    Comments \cup (IF Len(es) = 2 THEN {MkComment(<<>>, 65535, <<>>)} ELSE {})

Damages == {"none", "nosig", "badlen"}

InitTrailer ==
    /\ \E es \in EntryLists : \E c \in CommentsOf(es) : \E d \in Damages :
         /\ store = assemble(localParts(es),
                             centralParts(es, 0, archiveSize(es, c)), Len(es),
                             Len(localParts(es)), c, d)
         /\ truth = [es |-> es, comment |-> c, wellFormed |-> d = "none"]
    /\ zr = NotOpened
    /\ lp = NoLoop
    /\ streams = [c \in Callers |-> NoStream]

\* The archiver replaces the comment of a well-formed archive by c and sets the
\* trailer's comment-length field to match.
SetComment(c) ==
    /\ truth.wellFormed
    /\ store' = archive(truth.es, c)
    /\ truth' = [truth EXCEPT !.comment = c]
    /\ zr' = NotOpened
    /\ UNCHANGED <<lp, streams>>

NextTrailer ==
    \/ DoNewReader
    \/ \E c \in CommentsOf(truth.es) : SetComment(c)

SpecTrailer == InitTrailer /\ [][NextTrailer]_vars

\* The test of the trailer locator at store position q, read from the store
\* itself: the signature, and q + 22 + commentLength = size.
candidateAt(q) ==
    /\ ByteAt(store, q) = 80
    /\ ByteAt(store, q + 1) = 75
    /\ ByteAt(store, q + 2) = 5
    /\ ByteAt(store, q + 3) = 6
    /\ q + directoryEndLen + ByteAt(store, q + 20) + ByteAt(store, q + 21) * 256
         = Size(store)

\* The candidates among the last secondWindow bytes of the store.
candidates ==
    { q \in Max(0, Size(store) - secondWindow)..(Size(store) - directoryEndLen) :
        candidateAt(q) }

lastCandidate == CHOOSE q \in candidates : \A r \in candidates : r <= q

\* Where the archiver put the trailer.
trailerAt == Len(localParts(truth.es)) + Len(truth.es) * centralLen

C10_TwoStageScanIsOneScan ==
    zr.opened =>
        IF candidates = {}
        THEN zr.err = "ErrFormat" /\ zr.end = NoDirectoryEnd
        ELSE /\ zr.end.at = lastCandidate
             /\ zr.end.commentLen = Size(store) - lastCandidate - directoryEndLen
             /\ zr.end.comment = ReadAt(store, lastCandidate + directoryEndLen,
                                        zr.end.commentLen)
             /\ zr.end.directoryRecords
                  = toUint16(ReadAt(store, lastCandidate + 10, 2))
             /\ zr.end.directoryOffset
                  = toUint32(ReadAt(store, lastCandidate + 16, 4))

C10_Witness ==
    /\ zr.opened
    /\ candidates # {}
    /\ zr.end.at = lastCandidate
    /\ zr.end.at < Size(store) - firstWindow
    /\ Cardinality(candidates) = 1

----------------------------------------------------------------------------
(* The specification of the directory parser: Reader.init followed one      *)
(* iteration of its record loop at a time.  z.File is kept as runs of equal *)
(* Files (a File and how many times it was appended in a row), so that a    *)
(* directory of more than 65536 equal records stays a small value.          *)

runsLen(rs) == IF rs = <<>> THEN 0 ELSE rs[Len(rs)].upto

\* append(z.File, f) on runs; `upto` is the length of the list up to and
\* including the run.
runsAppend(rs, f) ==
    IF rs # <<>> /\ rs[Len(rs)].f = f
    THEN [rs EXCEPT ![Len(rs)].upto = @ + 1]
    ELSE Append(rs, [f |-> f, upto |-> runsLen(rs) + 1])

RECURSIVE runsOf(_)
runsOf(files) ==
    IF files = <<>> THEN <<>>
    ELSE runsAppend(runsOf(SubSeq(files, 1, Len(files) - 1)), files[Len(files)])

\* The most records a small directory holds.
MaxRecs == 3

dirEntry == plainEntry(<<5>>, Store)

\* How the directory ends, which decides how the loop stops:
\*   "bare"      the trailer follows and the store ends 22 bytes later;
\*   "commented" the trailer follows, with a comment of 30 bytes;
\*   "atEnd"     the records are the last bytes of the store (the trailer's
\*               offset points into its own comment, which holds them);
\*   "cutName"   as atEnd, with the name of the last record missing;
\*   "beyond"    the trailer's offset points past the end of the store.
DirKinds == {"bare", "commented", "atEnd", "cutName", "beyond"}

\* n equal records, none of which reaches a local header.
dirRecords(n) == [i \in 1..n |-> centralRecord(dirEntry, 0)]

RECURSIVE flatten(_)
flatten(ss) == IF ss = <<>> THEN <<>> ELSE Head(ss) \o flatten(Tail(ss))

dirStore(n, declared, kind) ==
    LET recs == flatten(dirRecords(n))
    IN  CASE kind = "bare" ->
               assemble(<<>>, recs, declared, 0, MkComment(<<>>, 0, <<>>), "none")
          [] kind = "commented" ->
               assemble(<<>>, recs, declared, 0, MkComment(<<>>, 30, <<>>), "none")
          [] kind = "atEnd" ->
               assemble(<<>>, <<>>, declared, directoryEndLen,
                        MkComment(recs, 0, <<>>), "none")
          [] kind = "cutName" ->
               assemble(<<>>, <<>>, declared, directoryEndLen,
                        MkComment(SubSeq(recs, 1, Len(recs) - 1), 0, <<>>), "none")
          [] kind = "beyond" ->
               assemble(<<>>, recs, declared, Len(recs) + directoryEndLen + 1,
                        MkComment(<<>>, 0, <<>>), "none")

\* A directory of `n` equal records, n beyond 16 bits, then the trailer.
bigDirStore(n, declared, kind) ==
    LET cLen == IF kind = "commented" THEN 30 ELSE 0
    IN  MkStore(<<>>, centralRecord(dirEntry, 0), n,
                trailerFixed(declared, n * centralLen, 0, cLen) \o Rep(1, cLen))

DirCases ==
    { [n |-> n, declared |-> d, kind |-> k] :
        n \in 0..MaxRecs, d \in 0..(MaxRecs + 1), k \in DirKinds }
    \ { [n |-> 0, declared |-> d, kind |-> "cutName"] : d \in 0..(MaxRecs + 1) }

BigDirCases ==
    { [n |-> uint16Mod + 1, declared |-> d, kind |-> "bare"] : d \in {0, 1} }

InitDir ==
    /\ \/ \E t \in DirCases :
            /\ store = dirStore(t.n, t.declared, t.kind)
            /\ truth = t
       \/ \E t \in BigDirCases :
            /\ store = bigDirStore(t.n, t.declared, t.kind)
            /\ truth = t
    /\ zr = NotOpened
    /\ lp = NoLoop
    /\ streams = [c \in Callers |-> NoStream]

\* init up to the loop: readDirectoryEnd, z.Comment, the seek.
DirBegin ==
    /\ lp.pc = "idle"
    /\ LET e == readDirectoryEnd(store)
       IN  IF e.err # "nil"
           THEN /\ lp' = [lp EXCEPT !.pc = "done", !.ret = e.err]
                /\ zr' = zr
           ELSE IF seekErr(store, e.dir.directoryOffset) # "nil"
           THEN /\ lp' = [lp EXCEPT !.pc = "done",
                                    !.ret = seekErr(store, e.dir.directoryOffset)]
                /\ zr' = [zr EXCEPT !.end = e.dir]
           ELSE /\ lp' = [lp EXCEPT !.pc = "loop", !.pos = e.dir.directoryOffset]
                /\ zr' = [zr EXCEPT !.end = e.dir, !.Comment = e.dir.comment]
    /\ UNCHANGED <<store, truth, streams>>

\* One iteration of the loop.
DirIter ==
    /\ lp.pc = "loop"
    /\ LET h == readDirectoryHeader(store, lp.pos)
       IN  lp' = IF softStop(h.err) THEN [lp EXCEPT !.pc = "stopped", !.err = h.err]
                 ELSE IF h.err # "nil"
                 THEN [lp EXCEPT !.pc = "done", !.err = h.err, !.ret = h.err]
                 ELSE [lp EXCEPT !.pos = h.next, !.files = runsAppend(lp.files, h.f)]
    /\ UNCHANGED <<store, truth, zr, streams>>

\* The count check after the loop.
DirFinish ==
    /\ lp.pc = "stopped"
    /\ lp' = [lp EXCEPT !.pc = "done",
                        !.ret = initFinish(runsLen(lp.files),
                                           zr.end.directoryRecords, lp.err)]
    /\ UNCHANGED <<store, truth, zr, streams>>

NextDir == DirBegin \/ DirIter \/ DirFinish

SpecDir == InitDir /\ [][NextDir]_vars

\* The error that stops the loop on a directory of the given kind, and the
\* records decoded before it.
stopErr(kind) ==
    CASE kind = "bare"      -> "ErrUnexpectedEOF"
      [] kind = "commented" -> "ErrFormat"
      [] kind = "atEnd"     -> "EOF"
      [] kind = "cutName"   -> "EOF"
      [] kind = "beyond"    -> "EINVAL"

decoded(t) ==
    CASE t.kind = "cutName" -> t.n - 1
      [] t.kind = "beyond"  -> 0
      [] OTHER              -> t.n

expectedRuns(t) ==
    IF decoded(t) = 0 THEN <<>>
    ELSE <<[f |-> expectedFile(dirEntry, 0, 0), upto |-> decoded(t)]>>

DirStepsAgreeWithNewReader ==
    (lp.pc = "done" /\ truth.n <= MaxRecs + 1) =>
        /\ lp.ret = NewReader(store).err
        /\ lp.ret = "nil" => lp.files = runsOf(NewReader(store).File)

=============================================================================
